---- MODULE Spec2Model ----
(***************************************************************************)
(* Model of the ADXL343 driver (src/src/lib.rs), its two transports        *)
(* (src/src/transport.rs) and its register map (src/src/register.rs).      *)
(*                                                                         *)
(* The driver is single-threaded and blocking: every public call is one    *)
(* action.  The inputs of a call are its arguments, the bytes the device   *)
(* holds in its data registers while it is read, and a fault: which HAL    *)
(* primitive (if any) of which transport operation of the call fails.      *)
(***************************************************************************)
EXTENDS Integers, Sequences, FiniteSets, TLC

(***************************************************************************)
(* Register map: src/src/register.rs                                       *)
(***************************************************************************)
DEVID == 0
THRESH_TAP == 29
OFSX == 30
OFSY == 31
OFSZ == 32
DUR == 33
LATENT == 34
WINDOW == 35
THRESH_ACT == 36
THRESH_INACT == 37
TIME_INACT == 38
ACT_INACT_CTL == 39
THRESH_FF == 40
TIME_FF == 41
TAP_AXES == 42
ACT_TAP_STATUS == 43
BW_RATE == 44
POWER_CTL == 45
INT_ENABLE == 46
INT_MAP == 47
INT_SOURCE == 48
DATA_FORMAT == 49
DATAX0 == 50
DATAX1 == 51
DATAY0 == 52
DATAY1 == 53
DATAZ0 == 54
DATAZ1 == 55
FIFO_CTL == 56
FIFO_STATUS == 57

\* the closed enumeration Register, each member identified by its discriminant
Register ==
    {DEVID, THRESH_TAP, OFSX, OFSY, OFSZ, DUR, LATENT, WINDOW, THRESH_ACT,
     THRESH_INACT, TIME_INACT, ACT_INACT_CTL, THRESH_FF, TIME_FF, TAP_AXES,
     ACT_TAP_STATUS, BW_RATE, POWER_CTL, INT_ENABLE, INT_MAP, INT_SOURCE,
     DATA_FORMAT, DATAX0, DATAX1, DATAY0, DATAY1, DATAZ0, DATAZ1, FIFO_CTL,
     FIFO_STATUS}

\* Register::addr: `self as u8`
addr(register) == register

\* Register::read_only with FIFO_STATUS left out of the match
read_only_without_fifo_status(register) ==
    register \in {DEVID, ACT_TAP_STATUS, INT_SOURCE, DATAX0, DATAX1, DATAY0,
                  DATAY1, DATAZ0, DATAZ1}

\* Register::read_only
read_only(register) ==
    register \in {DEVID, ACT_TAP_STATUS, INT_SOURCE, DATAX0, DATAX1, DATAY0,
                  DATAY1, DATAZ0, DATAZ1, FIFO_STATUS}

(***************************************************************************)
(* Data-format flags: src/src/register.rs                                  *)
(***************************************************************************)
SELF_TEST == 128
SPI == 64
INT_INVERT == 32
FULL_RES == 8
JUSTIFY == 4
RANGE_HI == 2
RANGE_LO == 1

\* bitflags `contains` for a single-bit flag over the u8 representation
contains(flags, flag) == (flags \div flag) % 2 = 1

\* 1 if the flag's bit is set in the byte, else 0
Bit(b, flag) == (b \div flag) % 2

\* DataFormatFlags::from_bits_truncate had the bitflags! block no FULL_RES
from_bits_truncate_without_full_res(b) ==
    SELF_TEST * Bit(b, SELF_TEST) + SPI * Bit(b, SPI)
        + INT_INVERT * Bit(b, INT_INVERT) + JUSTIFY * Bit(b, JUSTIFY)
        + RANGE_HI * Bit(b, RANGE_HI) + RANGE_LO * Bit(b, RANGE_LO)

\* DataFormatFlags::from_bits_truncate: the bits of b that are declared flags
from_bits_truncate(b) ==
    SELF_TEST * Bit(b, SELF_TEST) + SPI * Bit(b, SPI)
        + INT_INVERT * Bit(b, INT_INVERT) + FULL_RES * Bit(b, FULL_RES)
        + JUSTIFY * Bit(b, JUSTIFY) + RANGE_HI * Bit(b, RANGE_HI)
        + RANGE_LO * Bit(b, RANGE_LO)

\* DataFormatFlags::from_bits: None when b has a bit that is no declared flag
from_bits(b) ==
    IF from_bits_truncate(b) = b THEN [some |-> TRUE, flags |-> b]
    ELSE [some |-> FALSE, flags |-> 0]

\* enum DataFormatRange
DataFormatRange ==
    {"PLUSMINUS_2G", "PLUSMINUS_4G", "PLUSMINUS_8G", "PLUSMINUS_16G"}

\* DataFormatFlags::range with the two single-bit ranges exchanged
range_lo_is_8g(flags) ==
    IF contains(flags, RANGE_HI)
    THEN IF contains(flags, RANGE_LO) THEN "PLUSMINUS_16G" ELSE "PLUSMINUS_4G"
    ELSE IF contains(flags, RANGE_LO) THEN "PLUSMINUS_8G" ELSE "PLUSMINUS_2G"

\* DataFormatFlags::range
range(flags) ==
    IF contains(flags, RANGE_HI)
    THEN IF contains(flags, RANGE_LO) THEN "PLUSMINUS_16G" ELSE "PLUSMINUS_8G"
    ELSE IF contains(flags, RANGE_LO) THEN "PLUSMINUS_4G" ELSE "PLUSMINUS_2G"

\* DataFormatRange::bits
range_bits(r) ==
    CASE r = "PLUSMINUS_2G" -> 0
      [] r = "PLUSMINUS_4G" -> RANGE_LO
      [] r = "PLUSMINUS_8G" -> RANGE_HI
      [] r = "PLUSMINUS_16G" -> RANGE_HI + RANGE_LO

\* From<DataFormatRange> for f32
range_f32(r) ==
    CASE r = "PLUSMINUS_2G" -> 2
      [] r = "PLUSMINUS_4G" -> 4
      [] r = "PLUSMINUS_8G" -> 8
      [] r = "PLUSMINUS_16G" -> 16

(***************************************************************************)
(* Crate constants: src/src/lib.rs                                         *)
(***************************************************************************)
ADDRESS == 83
DEVICE_ID == 229

(***************************************************************************)
(* Bounds and input sets                                                   *)
(***************************************************************************)
\* longest read a caller asks of read_register::<N>
MaxReadLen == 2

\* data-format values callers pass: default, JUSTIFY, FULL_RES | 16g
FormatInputs == {0, 4, 11}

\* bytes callers pass to write_register
ValueInputs == {0, 8}

\* identity bytes a device on the bus may answer with
DevIds == {DEVICE_ID, 0}

\* registers callers pass to write_register: every read-only register, the
\* format register and three read/write registers
WriteInputs ==
    {DEVID, ACT_TAP_STATUS, INT_SOURCE, DATAX0, DATAX1, DATAY0, DATAY1, DATAZ0,
     DATAZ1, FIFO_STATUS, DATA_FORMAT, OFSX, POWER_CTL, FIFO_CTL}

\* registers callers pass to read_register
ReadInputs == {DEVID, POWER_CTL, DATA_FORMAT, DATAX0, DATAZ1}

\* contents of DATAX0..DATAZ1 the device may hold during one bus transaction
SampleA == <<156, 255, 0, 0, 255, 127>>
SampleB == <<128, 0, 0, 128, 127, 255>>
Samples == {SampleA, SampleB}

\* what the data registers hold during the three reads of one axis read: the
\* same sample throughout, or a new one from the second read on
SampleSeqs ==
    {<<SampleA, SampleA, SampleA>>, <<SampleB, SampleB, SampleB>>,
     <<SampleA, SampleB, SampleB>>}

\* device registers whose content the model follows
TrackedRegs == {DATA_FORMAT}

VARIABLES
    transport,          \* "I2C" | "SPI": the Transport the driver is built on
    debug_assertions,   \* whether the build keeps debug_assert!
    devid,              \* byte the device answers for DEVID
    dev,                \* device-side content of the tracked registers
    cs,                 \* chip-select line: "high" (idle) | "low" (selected)
    driver,             \* "none" | "ready" | "panicked"
    data_format,        \* Adxl343.data_format: the cached flags
    last                \* the last call: name, arguments, result, traces, and
                        \* the cached flags as the call found them

vars == <<transport, debug_assertions, devid, dev, cs, driver, data_format, last>>

(***************************************************************************)
(* The bus and the device behind it (embedded-hal primitives).  `io` is    *)
(* the record [dev, cs, ops, bus]: device registers, chip-select level,    *)
(* the transport operations of the current call and the HAL primitives     *)
(* they invoked.  A primitive that fails leaves the device and the pin as  *)
(* they were.                                                              *)
(***************************************************************************)
Ev(ev, bytes, n, ok) ==
    [ev |-> ev, bytes |-> bytes, n |-> n, ok |-> ok,
     to |-> IF ev \in {"i2c_write", "i2c_write_read"} THEN ADDRESS ELSE 0]

Emit(io, e) == [io EXCEPT !.bus = Append(@, e)]

\* the device stores a byte written to one of its registers
DeviceStore(d, a, v) == IF a \in TrackedRegs THEN [d EXCEPT ![a] = v] ELSE d

\* the byte the device answers for address a while its data registers hold sample
DeviceByte(d, a, sample) ==
    IF a = DEVID THEN devid
    ELSE IF a \in TrackedRegs THEN d[a]
    ELSE IF a \in DATAX0..DATAZ1 THEN sample[a - DATAX0 + 1]
    ELSE 0

\* n bytes starting at a, the register pointer auto-incrementing
DeviceRead(d, a, n, sample) == [i \in 1..n |-> DeviceByte(d, a + i - 1, sample)]

\* the read frame sent with the bare address
ReadAddr_bare(a) == a

\* `register.addr() | 0x80`
ReadAddr(a) == IF (a \div 128) % 2 = 1 THEN a ELSE a + 128

Ret(io, res, buf) == [io |-> io, res |-> res, buf |-> buf]

\* `expr?` inside a transport: an error returns at once, otherwise the rest of
\* the function, K, runs on the outcome
TryIo(r, K(_)) == IF r.res # "Ok" THEN Ret(r.io, r.res, <<>>) ELSE K(r)

\* i2c.write(ADDRESS, bytes).map_err(BusError)
i2c_write(io, bytes, fault) ==
    IF fault = "i2c_write"
    THEN Ret(Emit(io, Ev("i2c_write", bytes, 0, FALSE)), "BusError", <<>>)
    ELSE Ret([Emit(io, Ev("i2c_write", bytes, 0, TRUE))
                 EXCEPT !.dev = DeviceStore(@, bytes[1], bytes[2])],
             "Ok", <<>>)

\* i2c.write_read(ADDRESS, bytes, &mut buffer).map_err(BusError)
i2c_write_read(io, bytes, n, sample, fault) ==
    IF fault = "i2c_write_read"
    THEN Ret(Emit(io, Ev("i2c_write_read", bytes, n, FALSE)), "BusError", <<>>)
    ELSE Ret(Emit(io, Ev("i2c_write_read", bytes, n, TRUE)), "Ok",
             DeviceRead(io.dev, bytes[1], n, sample))

\* cs.set_low().map_err(PinError)
cs_set_low(io, fault) ==
    IF fault = "cs_set_low"
    THEN Ret(Emit(io, Ev("cs_set_low", <<>>, 0, FALSE)), "PinError", <<>>)
    ELSE Ret([Emit(io, Ev("cs_set_low", <<>>, 0, TRUE)) EXCEPT !.cs = "low"],
             "Ok", <<>>)

\* cs.set_high() with its error mapped to BusError
cs_set_high_as_bus_error(io, fault) ==
    IF fault = "cs_set_high"
    THEN Ret(Emit(io, Ev("cs_set_high", <<>>, 0, FALSE)), "BusError", <<>>)
    ELSE Ret([Emit(io, Ev("cs_set_high", <<>>, 0, TRUE)) EXCEPT !.cs = "high"],
             "Ok", <<>>)

\* cs.set_high().map_err(PinError)
cs_set_high(io, fault) ==
    IF fault = "cs_set_high"
    THEN Ret(Emit(io, Ev("cs_set_high", <<>>, 0, FALSE)), "PinError", <<>>)
    ELSE Ret([Emit(io, Ev("cs_set_high", <<>>, 0, TRUE)) EXCEPT !.cs = "high"],
             "Ok", <<>>)

\* spi.write(bytes).map_err(BusError); a two-byte frame is a register write,
\* which the selected device stores
spi_write(io, bytes, fault) ==
    IF fault = "spi_write"
    THEN Ret(Emit(io, Ev("spi_write", bytes, 0, FALSE)), "BusError", <<>>)
    ELSE Ret([Emit(io, Ev("spi_write", bytes, 0, TRUE))
                 EXCEPT !.dev = IF Len(bytes) = 2 /\ io.cs = "low"
                                 THEN DeviceStore(@, bytes[1], bytes[2]) ELSE @],
             "Ok", <<>>)

\* spi.transfer(&mut buffer).map_err(BusError): the device answers with the
\* n bytes starting at the register the read frame named
spi_transfer(io, register, n, sample, fault) ==
    IF fault = "spi_transfer"
    THEN Ret(Emit(io, Ev("spi_transfer", <<>>, n, FALSE)), "BusError", <<>>)
    ELSE Ret(Emit(io, Ev("spi_transfer", <<>>, n, TRUE)), "Ok",
             DeviceRead(io.dev, addr(register), n, sample))

(***************************************************************************)
(* I2cTransport: src/src/transport.rs                                      *)
(***************************************************************************)
I2cTransport_write_register(io, register, value, fault) ==
    IF debug_assertions /\ read_only(register)
    THEN Ret(io, "panic", <<>>)
    ELSE TryIo(i2c_write(io, <<addr(register), value>>, fault),
               LAMBDA w : Ret(w.io, "Ok", <<>>))

I2cTransport_read_register(io, register, n, sample, fault) ==
    TryIo(i2c_write_read(io, <<addr(register)>>, n, sample, fault),
          LAMBDA buffer : Ret(buffer.io, "Ok", buffer.buf))

(***************************************************************************)
(* SpiTransport: src/src/transport.rs                                      *)
(***************************************************************************)
SpiTransport_write_register(io, register, value, fault) ==
    IF debug_assertions /\ read_only(register)
    THEN Ret(io, "panic", <<>>)
    ELSE TryIo(cs_set_low(io, fault), LAMBDA low :
         TryIo(spi_write(low.io, <<addr(register), value>>, fault), LAMBDA w :
         TryIo(cs_set_high(w.io, fault), LAMBDA high :
         Ret(high.io, "Ok", <<>>))))

SpiTransport_read_register(io, register, n, sample, fault) ==
    TryIo(cs_set_low(io, fault), LAMBDA low :
    TryIo(spi_write(low.io, <<ReadAddr(addr(register))>>, fault), LAMBDA w :
    TryIo(spi_transfer(w.io, register, n, sample, fault), LAMBDA buffer :
    TryIo(cs_set_high(buffer.io, fault), LAMBDA high :
    Ret(high.io, "Ok", buffer.buf)))))

(***************************************************************************)
(* trait Transport, dispatched on the transport the driver owns.  Each     *)
(* call is entered in io.ops with its result.                              *)
(***************************************************************************)
Op(op, reg, val, n, res, buf) ==
    [op |-> op, reg |-> reg, val |-> val, n |-> n, res |-> res, buf |-> buf]

Logged(op, register, value, n, r) ==
    [r EXCEPT !.io.ops = Append(@, Op(op, register, value, n, r.res, r.buf))]

Transport_write_register(io, register, value, fault) ==
    Logged("write", register, value, 0,
           IF transport = "I2C"
           THEN I2cTransport_write_register(io, register, value, fault)
           ELSE SpiTransport_write_register(io, register, value, fault))

Transport_read_register(io, register, n, sample, fault) ==
    Logged("read", register, 0, n,
           IF transport = "I2C"
           THEN I2cTransport_read_register(io, register, n, sample, fault)
           ELSE SpiTransport_read_register(io, register, n, sample, fault))

\* the fault armed for the k-th transport operation of a call
FaultAt(fault, k) == IF fault.at = k THEN fault.prim ELSE "none"

NoFault == [at |-> 0, prim |-> "none"]

(***************************************************************************)
(* Adxl343: src/src/lib.rs.  `self` is the record [io, data_format]: the   *)
(* transport (with the bus and device behind it) and the cached flags.     *)
(* A result is [self, res, val]; res is "Ok", the transport's "BusError"   *)
(* or "PinError", the kinds "Device" or "Mode", or "panic".                *)
(***************************************************************************)
Res(self, res, val) == [self |-> self, res |-> res, val |-> val]

\* `expr?` inside the driver
Try(r, K(_)) == IF r.res # "Ok" THEN Res(r.self, r.res, <<>>) ELSE K(r)

\* the outcome t of a call on self.transport, as the driver sees it
OnTransport(self, t) == Res([self EXCEPT !.io = t.io], t.res, t.buf)

\* DataFormatFlags::bits: the u8 representation
bits(f) == f

\* Adxl343::data_format assigning the cache before the write is known to succeed
Adxl343_data_format_cache_first(self, f, fault) ==
    OnTransport([self EXCEPT !.data_format = f],
                Transport_write_register(self.io, DATA_FORMAT, bits(f), fault))

\* Adxl343::data_format
Adxl343_data_format(self, f, fault) ==
    Try(OnTransport(self, Transport_write_register(self.io, DATA_FORMAT, bits(f),
                                                   fault)),
        LAMBDA w : Res([w.self EXCEPT !.data_format = f], "Ok", <<>>))

\* Adxl343::write_register without the assert_ne! on DATA_FORMAT
Adxl343_write_register_unguarded(self, register, value, fault) ==
    Try(OnTransport(self, Transport_write_register(self.io, register, value, fault)),
        LAMBDA w : Res(w.self, "Ok", <<>>))

\* Adxl343::write_register
Adxl343_write_register(self, register, value, fault) ==
    IF register = DATA_FORMAT
    THEN Res(self, "panic", <<>>)
    ELSE Try(OnTransport(self, Transport_write_register(self.io, register, value,
                                                        fault)),
             LAMBDA w : Res(w.self, "Ok", <<>>))

\* Adxl343::read_register::<N> reporting every failure as a bus error
Adxl343_read_register_bus_error_only(self, register, n, sample, fault) ==
    Try(Res(OnTransport(self, Transport_read_register(self.io, register, n, sample,
                                                      fault)).self,
            IF Transport_read_register(self.io, register, n, sample, fault).res = "Ok"
            THEN "Ok" ELSE "BusError",
            Transport_read_register(self.io, register, n, sample, fault).buf),
        LAMBDA b : Res(b.self, "Ok", b.val))

\* Adxl343::read_register::<N>
Adxl343_read_register(self, register, n, sample, fault) ==
    Try(OnTransport(self, Transport_read_register(self.io, register, n, sample,
                                                  fault)),
        LAMBDA b : Res(b.self, "Ok", b.val))

\* Adxl343::get_device_id
get_device_id(self, fault) ==
    Try(OnTransport(self, Transport_read_register(self.io, DEVID, 1, <<>>, fault)),
        LAMBDA output : Res(output.self, "Ok", output.val[1]))

\* the write_register calls with a raw write of the format register added
InitWrites_with_raw_format ==
    << <<POWER_CTL, 0>>, <<DATA_FORMAT, 0>>, <<THRESH_TAP, 20>> >>

\* the write_register calls with the WINDOW write forgotten
InitWrites_without_window ==
    << <<INT_ENABLE, 0>>, <<THRESH_TAP, 20>>, <<DUR, 50>>, <<LATENT, 0>>,
       <<TAP_AXES, 7>>, <<POWER_CTL, 8>> >>

\* the write_register calls with measurement enabled before the tap set-up
InitWrites_measure_first ==
    << <<POWER_CTL, 8>>, <<INT_ENABLE, 0>>, <<THRESH_TAP, 20>>, <<DUR, 50>>,
       <<LATENT, 0>>, <<WINDOW, 0>>, <<TAP_AXES, 7>> >>

\* the write_register calls of new_with_data_format, in program order
InitWrites ==
    << <<INT_ENABLE, 0>>, <<THRESH_TAP, 20>>, <<DUR, 50>>, <<LATENT, 0>>,
       <<WINDOW, 0>>, <<TAP_AXES, 7>>, <<POWER_CTL, 8>> >>

\* `adxl343.write_register(..)?;` for each of writes in turn, the j-th of them
\* being transport operation base + j of the call: after[j] is the outcome of
\* the first j statements, an error ending the sequence
WriteEach(self, writes, base, fault) ==
    LET after[j \in 0..Len(writes)] ==
            IF j = 0 THEN Res(self, "Ok", <<>>)
            ELSE Try(after[j - 1], LAMBDA a :
                     Adxl343_write_register(a.self, writes[j][1], writes[j][2],
                                            FaultAt(fault, base + j)))
    IN  after[Len(writes)]

\* new_with_data_format comparing the identity only after configuring the format
new_with_data_format_late_check(io, f, fault) ==
    Try(get_device_id([io |-> io, data_format |-> f], FaultAt(fault, 1)), LAMBDA id :
    Try(Adxl343_data_format(id.self, id.self.data_format, FaultAt(fault, 2)),
        LAMBDA c :
    IF id.val # DEVICE_ID THEN Res(c.self, "Device", <<>>)
    ELSE WriteEach(c.self, InitWrites, 2, fault)))

\* new_with_data_format dropping the result of the format write (no `?`)
new_with_data_format_unchecked_format(io, f, fault) ==
    Try(get_device_id([io |-> io, data_format |-> f], FaultAt(fault, 1)), LAMBDA id :
    IF id.val # DEVICE_ID THEN Res(id.self, "Device", <<>>)
    ELSE WriteEach(Adxl343_data_format(id.self, id.self.data_format,
                                       FaultAt(fault, 2)).self,
                   InitWrites, 2, fault))

\* Adxl343::new_with_data_format
new_with_data_format(io, f, fault) ==
    Try(get_device_id([io |-> io, data_format |-> f], FaultAt(fault, 1)), LAMBDA id :
    IF id.val # DEVICE_ID THEN Res(id.self, "Device", <<>>)
    ELSE Try(Adxl343_data_format(id.self, id.self.data_format, FaultAt(fault, 2)),
             LAMBDA c : WriteEach(c.self, InitWrites, 2, fault)))

\* DataFormatFlags::default
DefaultFormat == 0

\* Adxl343::new
new(io, fault) == new_with_data_format(io, DefaultFormat, fault)

\* the i16 a 16-bit pattern stands for (twos complement)
ToI16(u) == IF u >= 32768 THEN u - 65536 ELSE u

\* i16::from_be_bytes: buffer[0] is the most significant byte
i16_from_be_bytes(buffer) == ToI16(buffer[1] * 256 + buffer[2])

\* u16::from_le_bytes: buffer[0] is the least significant byte
u16_from_le_bytes(buffer) == buffer[1] + buffer[2] * 256

\* Adxl343::write_read_i16
write_read_i16(self, register, sample, fault) ==
    Try(OnTransport(self, Transport_read_register(self.io, register, 2, sample,
                                                  fault)),
        LAMBDA buffer : Res(buffer.self, "Ok", i16_from_be_bytes(buffer.val)))

\* Adxl343::write_read_u16
write_read_u16(self, register, sample, fault) ==
    Try(Adxl343_read_register(self, register, 2, sample, fault),
        LAMBDA buffer : Res(buffer.self, "Ok", u16_from_le_bytes(buffer.val)))

\* RawAccelerometer<I16x3>::accel_raw without the JUSTIFY check
accel_raw_i16_unchecked(self, samples, fault) ==
    Try(write_read_i16(self, DATAX0, samples[1], FaultAt(fault, 1)), LAMBDA x :
    Try(write_read_i16(x.self, DATAY0, samples[2], FaultAt(fault, 2)), LAMBDA y :
    Try(write_read_i16(y.self, DATAZ0, samples[3], FaultAt(fault, 3)), LAMBDA z :
    Res(z.self, "Ok", <<x.val, y.val, z.val>>))))

\* RawAccelerometer<I16x3>::accel_raw; samples[k] is what the data registers
\* hold during the k-th read
accel_raw_i16(self, samples, fault) ==
    IF contains(self.data_format, JUSTIFY)
    THEN Res(self, "Mode", <<>>)
    ELSE
    Try(write_read_i16(self, DATAX0, samples[1], FaultAt(fault, 1)), LAMBDA x :
    Try(write_read_i16(x.self, DATAY0, samples[2], FaultAt(fault, 2)), LAMBDA y :
    Try(write_read_i16(y.self, DATAZ0, samples[3], FaultAt(fault, 3)), LAMBDA z :
    Res(z.self, "Ok", <<x.val, y.val, z.val>>))))

\* RawAccelerometer<U16x3>::accel_raw
accel_raw_u16(self, samples, fault) ==
    IF ~contains(self.data_format, JUSTIFY)
    THEN Res(self, "Mode", <<>>)
    ELSE
    Try(write_read_u16(self, DATAX0, samples[1], FaultAt(fault, 1)), LAMBDA x :
    Try(write_read_u16(x.self, DATAY0, samples[2], FaultAt(fault, 2)), LAMBDA y :
    Try(write_read_u16(y.self, DATAZ0, samples[3], FaultAt(fault, 3)), LAMBDA z :
    Res(z.self, "Ok", <<x.val, y.val, z.val>>))))

\* `self.data_format.range().into()`: DataFormatFlags::range followed by
\* From<DataFormatRange> for f32
full_scale(flags) == range_f32(range(flags))

I16_MAX == 32767

\* Accelerometer::accel_norm scaling by the default range
accel_norm_default_range(self, samples, fault) ==
    Try(accel_raw_i16(self, samples, fault), LAMBDA raw_data :
        Res(raw_data.self, "Ok",
            [k \in 1..3 |-> raw_data.val[k] * full_scale(DefaultFormat)]))

\* Accelerometer::accel_norm; each component is the numerator of a fraction
\* over I16_MAX
accel_norm(self, samples, fault) ==
    Try(accel_raw_i16(self, samples, fault), LAMBDA raw_data :
        Res(raw_data.self, "Ok",
            [k \in 1..3 |-> raw_data.val[k] * full_scale(self.data_format)]))

(***************************************************************************)
(* The program: one action per public call                                 *)
(***************************************************************************)
\* HAL primitives a transport operation of the given kind invokes on the
\* transport in use; a fault can be armed on each
Primitives(kind) ==
    IF transport = "I2C"
    THEN IF kind = "write" THEN {"i2c_write"} ELSE {"i2c_write_read"}
    ELSE IF kind = "write" THEN {"cs_set_low", "spi_write", "cs_set_high"}
         ELSE {"cs_set_low", "spi_write", "spi_transfer", "cs_set_high"}

\* the faults a call can meet whose transport operations have these kinds
Faults(kinds) ==
    {NoFault} \cup
    UNION { [at : {k}, prim : Primitives(kinds[k])] : k \in 1..Len(kinds) }

\* a read that misses the data registers does not depend on what they hold
SamplesFor(register, n) ==
    IF \E a \in addr(register)..(addr(register) + n - 1) : a \in DATAX0..DATAZ1
    THEN Samples ELSE {<<0, 0, 0, 0, 0, 0>>}

\* the transport as a call finds it
Io == [dev |-> dev, cs |-> cs, ops |-> <<>>, bus |-> <<>>]

\* the record of a call; an accel_norm that directly follows a data_format
\* call also records that call's argument, result and cache before it
Call(name, reg, arg, r) ==
    [call |-> name, reg |-> reg, arg |-> arg, res |-> r.res, val |-> r.val,
     ops |-> r.self.io.ops, bus |-> r.self.io.bus, before |-> data_format,
     prev |-> IF name = "accel_norm" /\ last.call = "data_format"
              THEN <<last.arg, last.res, last.before>> ELSE <<>>]

\* what every call on a constructed driver leaves behind
Apply(name, reg, arg, r) ==
    /\ dev' = r.self.io.dev
    /\ cs' = r.self.io.cs
    /\ data_format' = r.self.data_format
    /\ driver' = IF r.res = "panic" THEN "panicked" ELSE "ready"
    /\ last' = Call(name, reg, arg, r)
    /\ UNCHANGED <<transport, debug_assertions, devid>>

\* what a construction leaves behind: a driver only if it succeeded
Construct(f, r) ==
    /\ dev' = r.self.io.dev
    /\ cs' = r.self.io.cs
    /\ driver' = IF r.res = "Ok" THEN "ready"
                 ELSE IF r.res = "panic" THEN "panicked" ELSE "none"
    /\ data_format' = IF r.res = "Ok" THEN r.self.data_format ELSE DefaultFormat
    /\ last' = Call("new", 0, f, r)
    /\ UNCHANGED <<transport, debug_assertions, devid>>

Self == [io |-> Io, data_format |-> data_format]

Init ==
    /\ transport \in {"I2C", "SPI"}
    /\ debug_assertions \in BOOLEAN
    /\ devid \in DevIds
    /\ dev \in [TrackedRegs -> {0, 11}]
    /\ cs = "high"
    /\ driver = "none"
    /\ data_format = DefaultFormat
    /\ last = [call |-> "none", reg |-> 0, arg |-> 0, res |-> "Ok", val |-> <<>>,
               ops |-> <<>>, bus |-> <<>>, before |-> DefaultFormat,
               prev |-> <<>>]

\* kinds of the transport operations of a construction, in program order
InitKinds == <<"read", "write">> \o [i \in 1..Len(InitWrites) |-> "write"]

\* Adxl343::new_with_data_format(transport, f); Adxl343::new is the case
\* f = DataFormatFlags::default()
New ==
    \E f \in FormatInputs, fault \in Faults(InitKinds) :
        /\ driver = "none"
        /\ Construct(f, IF f = DefaultFormat THEN new(Io, fault)
                        ELSE new_with_data_format(Io, f, fault))

DataFormat ==
    \E f \in FormatInputs, fault \in Faults(<<"write">>) :
        /\ driver = "ready"
        /\ Apply("data_format", DATA_FORMAT, f, Adxl343_data_format(Self, f, fault.prim))

WriteRegister ==
    \E register \in WriteInputs, value \in ValueInputs, fault \in Faults(<<"write">>) :
        /\ driver = "ready"
        /\ Apply("write_register", register, value,
                 Adxl343_write_register(Self, register, value, fault.prim))

ReadRegister ==
    \E register \in ReadInputs, n \in 1..MaxReadLen, fault \in Faults(<<"read">>) :
      \E sample \in SamplesFor(register, n) :
        /\ driver = "ready"
        /\ addr(register) + n - 1 <= FIFO_STATUS
        /\ Apply("read_register", register, n,
                 Adxl343_read_register(Self, register, n, sample, fault.prim))

AccelRawI16 ==
    \E samples \in SampleSeqs, fault \in Faults(<<"read", "read", "read">>) :
        /\ driver = "ready"
        /\ Apply("accel_raw_i16", DATAX0, 0, accel_raw_i16(Self, samples, fault))

AccelRawU16 ==
    \E samples \in SampleSeqs, fault \in Faults(<<"read", "read", "read">>) :
        /\ driver = "ready"
        /\ Apply("accel_raw_u16", DATAX0, 0, accel_raw_u16(Self, samples, fault))

AccelNorm ==
    \E samples \in SampleSeqs, fault \in Faults(<<"read", "read", "read">>) :
        /\ driver = "ready"
        /\ Apply("accel_norm", DATAX0, 0, accel_norm(Self, samples, fault))

Next ==
    \/ New
    \/ DataFormat
    \/ WriteRegister
    \/ ReadRegister
    \/ AccelRawI16
    \/ AccelRawU16
    \/ AccelNorm

Spec == Init /\ [][Next]_vars

(***************************************************************************)
(* The data-format model on its own: the conversions between bytes, flags  *)
(* and ranges applied to every byte and every range.  `last` holds the     *)
(* conversion applied, its argument and its result; the driver's variables *)
(* stay as they start.                                                     *)
(***************************************************************************)
Byte == 0..255

Converted(name, arg, res, val) ==
    /\ last' = [call |-> name, reg |-> 0, arg |-> arg, res |-> res, val |-> val,
                ops |-> <<>>, bus |-> <<>>, before |-> DefaultFormat,
               prev |-> <<>>]
    /\ UNCHANGED <<transport, debug_assertions, devid, dev, cs, driver, data_format>>

FlagsInit ==
    /\ transport = "I2C"
    /\ debug_assertions = FALSE
    /\ devid = DEVICE_ID
    /\ dev = [a \in TrackedRegs |-> 0]
    /\ cs = "high"
    /\ driver = "none"
    /\ data_format = DefaultFormat
    /\ \E b \in Byte :
           last = [call |-> "byte", reg |-> 0, arg |-> b, res |-> "Ok", val |-> <<>>,
                   ops |-> <<>>, bus |-> <<>>, before |-> DefaultFormat,
               prev |-> <<>>]

\* DataFormatFlags::from_bits(b) and, when it is Some, .bits()
FromBits ==
    /\ last.call = "byte"
    /\ Converted("from_bits", last.arg,
                 IF from_bits(last.arg).some THEN "Some" ELSE "None",
                 bits(from_bits(last.arg).flags))

\* DataFormatFlags::from_bits_truncate(b).bits()
FromBitsTruncate ==
    /\ last.call = "byte"
    /\ Converted("from_bits_truncate", last.arg, "Ok",
                 bits(from_bits_truncate(last.arg)))

\* DataFormatFlags::from_bits_truncate(b).range() and its f32
Range ==
    /\ last.call = "byte"
    /\ Converted("range", last.arg, "Ok",
                 <<range(from_bits_truncate(last.arg)),
                   full_scale(from_bits_truncate(last.arg))>>)

\* r.bits() for a DataFormatRange r (also From<DataFormatRange> for
\* DataFormatFlags), and the range of the result
RangeBits ==
    \E r \in DataFormatRange :
        /\ last.call = "byte"
        /\ Converted("range_bits", r, "Ok",
                     <<bits(range_bits(r)), range(range_bits(r))>>)

FlagsNext ==
    \/ FromBits
    \/ FromBitsTruncate
    \/ Range
    \/ RangeBits

FlagsSpec == FlagsInit /\ [][FlagsNext]_vars

(***************************************************************************)
(* Properties                                                              *)
(***************************************************************************)
TransportErrors == {"BusError", "PinError"}

OpKey(o) == <<o.op, o.reg, o.val>>

\* a bus event that carries a register write: [address, value]
IsWriteFrame(e) == e.ev \in {"i2c_write", "spi_write"} /\ Len(e.bytes) = 2

\* the read-only registers as the specification lists them
ReadOnlySet ==
    {DEVID, ACT_TAP_STATUS, INT_SOURCE, DATAX0, DATAX1, DATAY0, DATAY1, DATAZ0,
     DATAZ1, FIFO_STATUS}

\* the initialization sequence the specification gives, for format byte f
InitSequence(f) ==
    << <<"read", DEVID, 0>>, <<"write", DATA_FORMAT, f>>,
       <<"write", INT_ENABLE, 0>>, <<"write", THRESH_TAP, 20>>,
       <<"write", DUR, 50>>, <<"write", LATENT, 0>>, <<"write", WINDOW, 0>>,
       <<"write", TAP_AXES, 7>>, <<"write", POWER_CTL, 8>> >>

\* a construction that met the right identity byte and no failing operation
CleanInit ==
    /\ last.call = "new"
    /\ Len(last.ops) >= 1
    /\ last.ops[1].buf = <<DEVICE_ID>>
    /\ \A i \in 1..Len(last.ops) : last.ops[i].res = "Ok"

\* C1 (as claimed): whenever a Driver exists, the cached Data-Format value
\* equals the byte stored in the device's DATA_FORMAT register.
CacheEqualsDeviceFormat ==
    driver = "ready" => data_format = dev[DATA_FORMAT]

\* C2: a data_format(value) call that returns an error leaves the cached
\* value as it was before the call; one that succeeds leaves it equal to value.
DataFormatCacheFollowsResult ==
    [][last'.call = "data_format" =>
          /\ last'.res \in TransportErrors \cup {"Ok"}
          /\ last'.res \in TransportErrors => data_format' = data_format
          /\ last'.res = "Ok" => data_format' = last'.arg]_vars

DataFormatFailedKeepsCache ==
    /\ last.call = "data_format"
    /\ last.res \in TransportErrors
    /\ data_format # last.arg

\* C3 (as claimed): initialization against identity 0xE5 without transport
\* failures succeeds and issues exactly six transport operations.
InitIssuesSixOperations ==
    CleanInit => last.res = "Ok" /\ Len(last.ops) = 6

\* C3 (amended): initialization against identity 0xE5 without transport
\* failures succeeds and issues exactly nine transport operations: the
\* identity read followed by eight register writes.
InitIssuesNineOperations ==
    CleanInit =>
        /\ last.res = "Ok"
        /\ driver = "ready"
        /\ Len(last.ops) = 9
        /\ last.ops[1].op = "read"
        /\ \A i \in 2..9 : last.ops[i].op = "write"

InitSucceeded ==
    last.call = "new" /\ last.res = "Ok" /\ Len(last.ops) = 9

WrongIdentityFailsWithoutWrites ==
    (/\ last.call = "new"
     /\ Len(last.ops) >= 1
     /\ last.ops[1].res = "Ok"
     /\ last.ops[1].buf # <<DEVICE_ID>>) =>
        /\ last.res = "Device"
        /\ driver = "none"
        /\ Len(last.ops) = 1
        /\ last.ops[1].op = "read"
        /\ \A i \in 1..Len(last.bus) : ~IsWriteFrame(last.bus[i])

WrongIdentityMet ==
    last.call = "new" /\ last.res = "Device" /\ devid # DEVICE_ID

\* C6: when transport operation k of a construction fails, construction
\* returns that operation's error, no Driver exists, operation k is the last
\* transport operation and its failing primitive the last bus event, and no
\* register was written twice.
InitErrorPropagates ==
    last.call = "new" =>
        \A k \in 1..Len(last.ops) :
            last.ops[k].res \in TransportErrors =>
                /\ last.res = last.ops[k].res
                /\ driver = "none"
                /\ k = Len(last.ops)
                /\ \A i \in 1..Len(last.bus) : last.bus[i].ok <=> i < Len(last.bus)
                /\ \A i, j \in 1..k :
                       i # j /\ last.ops[i].op = "write" /\ last.ops[j].op = "write"
                           => last.ops[i].reg # last.ops[j].reg

InitFailedAfterWrites ==
    /\ last.call = "new"
    /\ Len(last.ops) = 5
    /\ last.ops[5].res = "PinError"
    /\ last.ops[4].res = "Ok"

\* C7: write_register on DATA_FORMAT is rejected (it panics) for every byte
\* value: no transport operation and no bus event happens, and the device's
\* format register and the cached value stay as they were.
FormatRegisterWriteRejected ==
    [][(last'.call = "write_register" /\ last'.reg = DATA_FORMAT) =>
          /\ last'.res = "panic"
          /\ last'.ops = <<>>
          /\ last'.bus = <<>>
          /\ dev' = dev
          /\ data_format' = data_format]_vars

FormatRegisterWriteAttempted ==
    /\ last.call = "write_register"
    /\ last.reg = DATA_FORMAT
    /\ last.arg = 8
    /\ driver = "panicked"

\* C8 (as claimed): write_register on a read-only register is rejected on
\* both transports, and no write frame addressed to a read-only register is
\* ever put on the bus.
ReadOnlyWriteRejected ==
    /\ (last.call = "write_register" /\ last.reg \in ReadOnlySet) =>
           last.res = "panic"
    /\ \A i \in 1..Len(last.bus) :
           IsWriteFrame(last.bus[i]) => last.bus[i].bytes[1] \notin ReadOnlySet

\* C8 (amended): in a build with debug assertions enabled, write_register on
\* a read-only register is rejected (it panics) on both transports, and no
\* write frame addressed to a read-only register is put on the bus.
ReadOnlyWriteRejectedInDebugBuild ==
    debug_assertions => ReadOnlyWriteRejected

ReadOnlyWriteAttemptedInDebugBuild ==
    /\ debug_assertions
    /\ last.call = "write_register"
    /\ last.reg = FIFO_STATUS
    /\ last.res = "panic"

\* C9: the signed reader (accel_raw -> I16x3, accel_norm) called while the
\* cached JUSTIFY bit is set, and the unsigned reader called while it is
\* clear, fail with Mode and perform no transport operation, whatever the
\* device's own format register holds.
WrongModeFailsWithoutIo ==
    [][(\/ /\ last'.call \in {"accel_raw_i16", "accel_norm"}
           /\ contains(data_format, JUSTIFY)
        \/ /\ last'.call = "accel_raw_u16"
           /\ ~contains(data_format, JUSTIFY)) =>
          /\ last'.res = "Mode"
          /\ last'.ops = <<>>
          /\ last'.bus = <<>>
          /\ UNCHANGED <<dev, cs, data_format>>]_vars

WrongModeMet ==
    /\ last.call = "accel_norm"
    /\ last.res = "Mode"
    /\ contains(data_format, JUSTIFY)

\* C10 (as claimed): the signed reader returns, for each axis, the twos
\* complement 16-bit value of b1 * 256 + b0, where (b0, b1) are the bytes the
\* 2-byte read starting at DATAx0 returned, in that order.
SignedAxisIsLittleEndian ==
    (last.call = "accel_raw_i16" /\ last.res = "Ok") =>
        \A k \in 1..3 :
            last.val[k] = ToI16(last.ops[k].buf[2] * 256 + last.ops[k].buf[1])

\* C11 (as claimed): for all 256 byte values b, converting b to a Data-Format
\* value and back yields b, and every byte is a valid Data-Format value.
EveryByteRoundTrips ==
    /\ last.call = "from_bits" => last.res = "Some" /\ last.val = last.arg
    /\ last.call = "from_bits_truncate" => last.val = last.arg

\* C11 (amended): converting a byte b to a Data-Format value and back yields b
\* with bit 4 (0b00010000) cleared; b is a valid Data-Format value, and the
\* round trip yields b itself, exactly when bit 4 of b is clear.
ByteRoundTripsWithoutBit4 ==
    /\ last.call = "from_bits_truncate" =>
           last.val = last.arg - 16 * ((last.arg \div 16) % 2)
    /\ last.call = "from_bits" =>
           /\ last.res = "Some" <=> (last.arg \div 16) % 2 = 0
           /\ last.res = "Some" => last.val = last.arg

Bit4Truncated ==
    last.call = "from_bits_truncate" /\ last.arg = 16 + 8 + 1 /\ last.val = 8 + 1

\* C12: range() depends only on bits 1 and 0 of the Data-Format value: both
\* set is 16g, bit 1 only 8g, bit 0 only 4g, neither 2g, with full-scale
\* values 16, 8, 4 and 2; and r.bits().range() = r for each range r.
RangeFollowsTable ==
    /\ last.call = "range" =>
           last.val = CASE last.arg % 4 = 3 -> <<"PLUSMINUS_16G", 16>>
                        [] last.arg % 4 = 2 -> <<"PLUSMINUS_8G", 8>>
                        [] last.arg % 4 = 1 -> <<"PLUSMINUS_4G", 4>>
                        [] last.arg % 4 = 0 -> <<"PLUSMINUS_2G", 2>>
    /\ last.call = "range_bits" => last.val[2] = last.arg /\ last.val[1] < 4

RangeOfMixedByte ==
    last.call = "range" /\ last.arg = 128 + 8 + 2 /\ last.val = <<"PLUSMINUS_8G", 8>>
\* the bus events of one successful SPI transport operation
SpiFrame(o) ==
    IF o.op = "write"
    THEN << Ev("cs_set_low", <<>>, 0, TRUE),
            Ev("spi_write", <<o.reg, o.val>>, 0, TRUE),
            Ev("cs_set_high", <<>>, 0, TRUE) >>
    ELSE << Ev("cs_set_low", <<>>, 0, TRUE),
            Ev("spi_write", <<o.reg + 128>>, 0, TRUE),
            Ev("spi_transfer", <<>>, o.n, TRUE),
            Ev("cs_set_high", <<>>, 0, TRUE) >>

\* the bus events of successful SPI transport operations, one after another
SpiFrames(ops) ==
    LET f[i \in 0..Len(ops)] == IF i = 0 THEN <<>> ELSE f[i - 1] \o SpiFrame(ops[i])
    IN  f[Len(ops)]

\* chip-select is asserted when bus event i of the last call happens
SelectedAt(i) ==
    \E j \in 1..(i - 1) :
        /\ last.bus[j].ev = "cs_set_low" /\ last.bus[j].ok
        /\ \A k \in (j + 1)..(i - 1) :
               ~(last.bus[k].ev = "cs_set_high" /\ last.bus[k].ok)

\* C13: on the SPI transport an operation's error is PinError exactly when
\* the failing primitive is a chip-select set_low or set_high and BusError
\* exactly when it is the SPI write or transfer, it is what the call returns,
\* and no failed primitive goes unreported; a read whose transfer succeeded
\* and whose chip-select deassert failed returns PinError and no data.
SpiErrorFollowsOrigin ==
    transport = "SPI" =>
        /\ \A k \in 1..Len(last.ops) :
               last.ops[k].res \in TransportErrors =>
                   /\ k = Len(last.ops)
                   /\ ~last.bus[Len(last.bus)].ok
                   /\ last.ops[k].res = "PinError" <=>
                          last.bus[Len(last.bus)].ev \in {"cs_set_low", "cs_set_high"}
                   /\ last.ops[k].res = "BusError" <=>
                          last.bus[Len(last.bus)].ev \in {"spi_write", "spi_transfer"}
                   /\ last.ops[k].buf = <<>>
                   /\ last.res = last.ops[k].res
                   /\ last.val = <<>>
        /\ \A i \in 1..Len(last.bus) :
               ~last.bus[i].ok => last.res \in TransportErrors

SpiReadLostOnDeassert ==
    /\ transport = "SPI"
    /\ last.call = "read_register"
    /\ Len(last.bus) = 4
    /\ last.bus[3].ev = "spi_transfer" /\ last.bus[3].ok
    /\ last.bus[4].ev = "cs_set_high" /\ ~last.bus[4].ok
    /\ last.res = "PinError"

\* C14: on the SPI transport the bus events of the successful transport
\* operations of a call are, per write, chip-select low, bytes [address,
\* value], chip-select high and, per N-byte read, chip-select low, byte
\* (address + 0x80), transfer of N bytes, chip-select high; every SPI write or
\* transfer happens while chip-select is asserted; a write frame's address
\* byte has bit 7 clear.
SpiFraming ==
    transport = "SPI" =>
        /\ LET frames == SpiFrames(SelectSeq(last.ops, LAMBDA o : o.res = "Ok"))
           IN  /\ Len(frames) <= Len(last.bus)
               /\ SubSeq(last.bus, 1, Len(frames)) = frames
               /\ last.res = "Ok" => last.bus = frames
        /\ \A i \in 1..Len(last.bus) :
               last.bus[i].ev \in {"spi_write", "spi_transfer"} => SelectedAt(i)
        /\ \A i \in 1..Len(last.bus) :
               IsWriteFrame(last.bus[i]) => last.bus[i].bytes[1] < 128

SpiReadFramed ==
    /\ transport = "SPI"
    /\ last.call = "read_register"
    /\ last.res = "Ok"
    /\ last.arg = 2
    /\ last.bus[2].bytes = <<DATAX0 + 128>>
\* C15: a successful accel_norm scales every axis by the full scale of the
\* Data-Format value cached when it is called; directly after a successful
\* data_format(f) that is the full scale of f's range, and directly after a
\* failed data_format(f) it is the full scale of the range cached before
\* that call.
NormScalesByCachedRange ==
    last.call = "accel_norm" /\ last.res = "Ok" =>
        /\ \A k \in 1..3 :
               last.val[k] = i16_from_be_bytes(last.ops[k].buf) * full_scale(last.before)
        /\ last.prev # <<>> /\ last.prev[2] = "Ok" =>
               \A k \in 1..3 :
                   last.val[k] =
                       i16_from_be_bytes(last.ops[k].buf) * full_scale(last.prev[1])
        /\ last.prev # <<>> /\ last.prev[2] # "Ok" =>
               \A k \in 1..3 :
                   last.val[k] =
                       i16_from_be_bytes(last.ops[k].buf) * full_scale(last.prev[3])

NormAfterFailedRangeChange ==
    /\ last.call = "accel_norm" /\ last.res = "Ok"
    /\ last.prev # <<>>
    /\ last.prev[2] \in TransportErrors
    /\ last.prev[1] = 0 /\ last.prev[3] = 11
    /\ last.val[1] = 16 * i16_from_be_bytes(last.ops[1].buf)
    /\ last.val[1] # 0

\* C16 (as claimed): with the justification bit clear a successful
\* accel_norm returns per axis raw * full_scale / 32767 (the numerator is
\* compared), raw being the signed value the device encodes in the axis's
\* register pair with DATAx0 the low byte and DATAx1 the high byte.
NormOfDeviceSample ==
    last.call = "accel_norm" /\ last.res = "Ok" =>
        \A k \in 1..3 :
            last.val[k] =
                ToI16(last.ops[k].buf[1] + 256 * last.ops[k].buf[2])
                    * (CASE last.before % 4 = 0 -> 2 [] last.before % 4 = 1 -> 4
                         [] last.before % 4 = 2 -> 8 [] OTHER -> 16)

\* C17: write_register on a register that is neither DATA_FORMAT nor
\* read-only issues exactly one transport write of (register, value), and
\* read_register exactly one transport read of its length starting at the
\* register; both return the transport's outcome unchanged and leave the
\* cached Data-Format value as it was.
RegisterCallsPassThrough ==
    /\ last.call = "write_register" /\ last.reg \notin ReadOnlySet \cup {DATA_FORMAT} =>
           /\ Len(last.ops) = 1
           /\ OpKey(last.ops[1]) = <<"write", last.reg, last.arg>>
           /\ last.res = last.ops[1].res
           /\ data_format = last.before
           /\ \A i \in 1..Len(last.bus) :
                  IsWriteFrame(last.bus[i]) => last.bus[i].bytes = <<last.reg, last.arg>>
           /\ last.res = "Ok" => \E i \in 1..Len(last.bus) : IsWriteFrame(last.bus[i])
    /\ last.call = "read_register" =>
           /\ Len(last.ops) = 1
           /\ last.ops[1].op = "read"
           /\ last.ops[1].reg = last.reg
           /\ last.ops[1].n = last.arg
           /\ last.res = last.ops[1].res
           /\ last.val = last.ops[1].buf
           /\ data_format = last.before

ReadPassesPinError ==
    /\ last.call = "read_register"
    /\ last.reg = POWER_CTL
    /\ last.res = "PinError"
    /\ data_format = 11

\* C18 (as claimed): between calls the SPI chip-select is deasserted (high),
\* also after an operation whose SPI write or transfer failed.
ChipSelectIdleHigh ==
    transport = "SPI" => cs = "high"

\* C19 (as claimed): the three axes of a successful accel_raw are the three
\* register pairs of one device sample.
AxesFromOneSample ==
    last.call \in {"accel_raw_i16", "accel_raw_u16"} /\ last.res = "Ok" =>
        \E s \in Samples :
            \A k \in 1..3 : last.ops[k].buf = <<s[2 * k - 1], s[2 * k]>>

\* C20: a construction never aborts: no write it issues reaches a read-only
\* register, its only write to DATA_FORMAT is the second transport operation,
\* made by the configuration operation with the caller's value (which it
\* caches on success), and neither the format-register assertion nor the
\* read-only debug assertion fires, whatever the build and the value.
InitNeverTripsGuards ==
    last.call = "new" =>
        /\ last.res # "panic"
        /\ driver # "panicked"
        /\ \A k \in 1..Len(last.ops) :
               /\ last.ops[k].res # "panic"
               /\ last.ops[k].op = "write" => last.ops[k].reg \notin ReadOnlySet
               /\ last.ops[k].op = "write" /\ last.ops[k].reg = DATA_FORMAT =>
                      k = 2 /\ last.ops[k].val = last.arg
        /\ last.res = "Ok" => data_format = last.arg /\ Len(last.ops) = 9

InitInDebugBuild ==
    /\ last.call = "new"
    /\ last.res = "Ok"
    /\ debug_assertions
    /\ last.arg = 11
    /\ OpKey(last.ops[2]) = <<"write", DATA_FORMAT, 11>>

\* C21 (as claimed): the magnitude of every axis of a successful accel_norm
\* is at most the full scale of the cached range, for every raw value, -32768
\* included: |raw| * full_scale <= 32767 * full_scale (the values are the
\* numerators over 32767).
NormWithinFullScale ==
    last.call = "accel_norm" /\ last.res = "Ok" =>
        \A k \in 1..3 :
            /\ last.val[k] <= 32767 * 2 * 2 ^ (last.before % 4)
            /\ -last.val[k] <= 32767 * 2 * 2 ^ (last.before % 4)
====
